---- MODULE Spec2Model ----
(***************************************************************************)
(* Model of gcvit/layers/attention.py: the two windowed attention layers   *)
(* WindowAttention and WindowAttentionGlobal.  A layer object is followed  *)
(* through its lifecycle  constructed -> build(input_shape) -> call(...)   *)
(* and through get_config / reconstruction from a configuration.           *)
(*                                                                         *)
(* Tensors are modelled by their shapes (sequences of naturals); the       *)
(* relative position index is modelled by its integer values, computed     *)
(* step by step as build computes it (range, meshgrid, stack, reshape,     *)
(* broadcast subtraction, transpose, shift, linearise).  The global query  *)
(* is modelled by the image each of its batch rows comes from.             *)
(***************************************************************************)
EXTENDS Integers, Sequences, FiniteSets, TLC

(* ------------------------------ bounds --------------------------------- *)
MaxW == 3          \* largest window_size passed to the constructor
MaxHeads == 2      \* largest num_heads
MaxC == 3          \* largest channel dimension
MaxBatch == 4      \* largest batch dimension of either input
MaxNest == 2       \* how often a layer is rebuilt from a configuration

Classes == {"WindowAttention", "WindowAttentionGlobal"}
WindowSizes == -1..MaxW
HeadCounts == 1..MaxHeads
Channels == 1..MaxC
Batches == 1..MaxBatch
TokenCounts == {w * w : w \in 1..MaxW}

(* The remaining constructor arguments (dropout rates in tenths): the      *)
(* defaults qkv_bias=True, attn_dropout=0., proj_dropout=0. and one        *)
(* argument set that differs from the defaults in every field.             *)
OtherArgs == {[qkv_bias |-> TRUE, attn_dropout |-> 0, proj_dropout |-> 0],
              [qkv_bias |-> FALSE, attn_dropout |-> 5, proj_dropout |-> 2]}

(* Python values of qk_scale: None or a number. *)
PyNone == [tag |-> "None", v |-> 0]
PyNum(x) == [tag |-> "num", v |-> x]
QkScales == {PyNone, PyNum(0), PyNum(2)}

(* head_dim ** -0.5, kept symbolic (it is irrational in general). *)
RSqrt(h) == [tag |-> "rsqrt", v |-> h]

(* Python truthiness of a qk_scale value: None and 0 are falsy. *)
Truthy(x) == x.tag = "num" /\ x.v # 0

(* A window_size value is an int nested in `depth` levels of 2-tuples:    *)
(* depth 0 is the int w, depth 1 is (w, w), depth 2 is ((w, w), (w, w)).  *)
PyInt(w) == [base |-> w, depth |-> 0]
PairOf(x) == [base |-> x.base, depth |-> x.depth + 1]

VARIABLES cls, window_size, num_heads, qkv_bias, qk_scale, attn_dropout,
          proj_dropout, built, attrs, dim, scale,
          relative_position_bias_table, relative_position_index,
          op, err, in_shape, q_batch, out_shape, q_rows, origin_config

vars == <<cls, window_size, num_heads, qkv_bias, qk_scale, attn_dropout,
          proj_dropout, built, attrs, dim, scale,
          relative_position_bias_table, relative_position_index,
          op, err, in_shape, q_batch, out_shape, q_rows, origin_config>>

config_vars == <<cls, window_size, num_heads, qkv_bias, qk_scale,
                 attn_dropout, proj_dropout>>
build_vars == <<built, attrs, dim, scale, relative_position_bias_table,
                relative_position_index>>
call_vars == <<in_shape, q_batch, out_shape, q_rows>>

NoConfig == [set |-> FALSE, window_size |-> PyInt(0), num_heads |-> 0,
             qkv_bias |-> FALSE, qk_scale |-> PyNone, attn_dropout |-> 0,
             proj_dropout |-> 0]

(* ------------------------- tensor shape helpers ------------------------ *)
RECURSIVE Prod(_)
Prod(s) == IF s = <<>> THEN 1 ELSE Head(s) * Prod(Tail(s))

(* The shape standing for "the operation raised". *)
Bad == <<-1>>

(* tf.keras.layers.Dense(units): replaces the last axis by units. *)
DenseShapeKeepsAxis(s, units) == s
DenseShape(s, units) ==
    IF s = Bad THEN Bad ELSE [k \in 1..Len(s) |-> IF k = Len(s) THEN units ELSE s[k]]

(* tf.reshape to a fully specified shape: the element counts must agree. *)
ReshapeUnchecked(s, target) == IF s = Bad THEN Bad ELSE target
ReshapePadding(s, target) ==
    IF s = Bad THEN Bad
    ELSE IF Prod(s) <= Prod(target) THEN target ELSE Bad
Reshape(s, target) ==
    IF s = Bad THEN Bad
    ELSE IF Prod(s) = Prod(target) THEN target ELSE Bad

(* tf.reshape with a trailing -1: the missing size is inferred; an empty   *)
(* tensor allows the inference only if every given size is non-zero.       *)
ReshapeInferLast(s, given) ==
    IF s = Bad THEN Bad
    ELSE IF Prod(given) = 0 THEN Bad
    ELSE IF Prod(s) % Prod(given) # 0 THEN Bad
    ELSE Append(given, Prod(s) \div Prod(given))

(* tf.transpose(perm): axis k of the result is axis perm[k] (0-based). *)
Transpose(s, perm) ==
    IF s = Bad THEN Bad ELSE [k \in 1..Len(perm) |-> s[perm[k] + 1]]

(* tf.unstack(axis=0): each piece drops the leading axis. *)
Unstack0(s) == IF s = Bad THEN Bad ELSE Tail(s)

(* a @ b on rank-4 tensors: batch axes equal, inner axes equal. *)
MatMul(a, b) ==
    IF a = Bad \/ b = Bad THEN Bad
    ELSE IF a[1] = b[1] /\ a[2] = b[2] /\ a[4] = b[3]
         THEN <<a[1], a[2], a[3], b[4]>> ELSE Bad

(* a + b with numpy broadcasting on equal-rank tensors. *)
BroadcastAdd(a, b) ==
    IF a = Bad \/ b = Bad THEN Bad
    ELSE IF \A k \in 1..Len(a) : a[k] = b[k] \/ a[k] = 1 \/ b[k] = 1
         THEN [k \in 1..Len(a) |-> IF a[k] = 1 THEN b[k] ELSE a[k]]
         ELSE Bad

(* tf.repeat(t, repeats, axis=0) on the shape. *)
RepeatShape(s, repeats) ==
    IF s = Bad THEN Bad
    ELSE [k \in 1..Len(s) |-> IF k = 1 THEN s[1] * repeats ELSE s[k]]

(* tf.repeat(t, repeats, axis=0) on the batch rows: every row is repeated  *)
(* `repeats` times consecutively.                                          *)
TfTile(rows, repeats) ==
    [k \in 1..(Len(rows) * repeats) |-> rows[((k - 1) % Len(rows)) + 1]]
TfRepeat(rows, repeats) ==
    [k \in 1..(Len(rows) * repeats) |-> rows[((k - 1) \div repeats) + 1]]

(* ----------------- relative position index (build) --------------------- *)
(* tf.range(n) *)
TfRange(n) == [k \in 1..n |-> k - 1]

(* tf.stack(tf.meshgrid(a, b, indexing='ij'), axis=0): [2, len a, len b] *)
Meshgrid(a, b) ==
    << [r \in 1..Len(a) |-> [c \in 1..Len(b) |-> a[r]]],
       [r \in 1..Len(a) |-> [c \in 1..Len(b) |-> b[c]]] >>

(* tf.reshape(coords, [2, -1]): each channel flattened in row-major order *)
FlattenRows(m) ==
    LET cols == IF Len(m) = 0 THEN 0 ELSE Len(m[1])
    IN  [e \in 1..(Len(m) * cols) |->
            m[((e - 1) \div cols) + 1][((e - 1) % cols) + 1]]
CoordsFlatten(coords) == [ch \in 1..2 |-> FlattenRows(coords[ch])]

(* coords_flatten[:, :, None] - coords_flatten[:, None, :] : [2, n, n] *)
RelativeCoords(cf) ==
    [ch \in 1..2 |-> [i \in 1..Len(cf[ch]) |-> [j \in 1..Len(cf[ch]) |->
        cf[ch][i] - cf[ch][j]]]]

(* tf.transpose(relative_coords, perm=[1, 2, 0]) : [n, n, 2] *)
TransposeCoords(rc) ==
    [i \in 1..Len(rc[1]) |-> [j \in 1..Len(rc[1]) |-> [ch \in 1..2 |->
        rc[ch][i][j]]]]

(* relative_coords[:, :, k] + self.window_size[k] - 1 *)
ShiftCoordNoMinus(d, ws) == d + ws
ShiftCoord(d, ws) == d + ws - 1

(* relative_coords_xx * (2 * self.window_size[1] - 1) *)
LinearizeEven(xx, ws1) == xx * (2 * ws1)
LinearizeShort(xx, ws1) == xx * (2 * ws1 - 2)
Linearize(xx, ws1) == xx * (2 * ws1 - 1)

RelativePositionIndex(ws0, ws1) ==
    LET coords_h == TfRange(ws0)
        coords_w == TfRange(ws1)
        coords == Meshgrid(coords_h, coords_w)
        coords_flatten == CoordsFlatten(coords)
        relative_coords == TransposeCoords(RelativeCoords(coords_flatten))
        n == Len(relative_coords)
    IN  [i \in 1..n |-> [j \in 1..n |->
            Linearize(ShiftCoord(relative_coords[i][j][1], ws0), ws1)
            + ShiftCoord(relative_coords[i][j][2], ws1)]]

(* shape of the bias table handed to add_weight *)
BiasTableShape(ws0, ws1, heads) == <<(2 * ws0 - 1) * (2 * ws1 - 1), heads>>

(* ------------------------------ __init__ -------------------------------- *)
(* The state after construction: __init__ stores (window_size, window_size) *)
(* and the other arguments unchanged; nothing is built.                     *)
Init ==
    /\ cls \in Classes
    /\ \E w \in WindowSizes : window_size = PairOf(PyInt(w))
    /\ num_heads \in HeadCounts
    /\ qk_scale \in QkScales
    /\ \E a \in OtherArgs : /\ qkv_bias = a.qkv_bias
                            /\ attn_dropout = a.attn_dropout
                            /\ proj_dropout = a.proj_dropout
    /\ built = FALSE
    /\ attrs = {}
    /\ dim = 0
    /\ scale = PyNone
    /\ relative_position_bias_table = <<>>
    /\ relative_position_index = <<>>
    /\ op = "init"
    /\ err = "none"
    /\ in_shape = <<>>
    /\ q_batch = 0
    /\ out_shape = <<>>
    /\ q_rows = <<>>
    /\ origin_config = NoConfig

(* ------------------------------- build ---------------------------------- *)
HeadDim(d, heads) == d \div heads

(* self.scale = self.qk_scale or head_dim ** -0.5 *)
Scale(qs, head_dim) == IF Truthy(qs) THEN qs ELSE RSqrt(head_dim)

(* The statement of build that raises, or "none":                          *)
(*   line 22/100  0 ** -0.5 raises ZeroDivisionError;                      *)
(*   line 26/104  2 * (w, w) - 1 raises TypeError when window_size[0] is   *)
(*                itself a tuple;                                          *)
(*   line 30/108  tf.range(limit) requires 0 <= limit.                     *)
BuildError(d) ==
    IF ~Truthy(qk_scale) /\ HeadDim(d, num_heads) = 0 THEN "ZeroDivisionError"
    ELSE IF window_size.depth # 1 THEN "TypeError"
    ELSE IF window_size.base < 0 THEN "InvalidArgumentError"
    ELSE "none"

Build(d) ==
    LET e == BuildError(d)
        ws0 == window_size.base
        ws1 == window_size.base
    IN  /\ ~built
        /\ dim' = d
        /\ err' = e
        /\ op' = "build"
        /\ scale' = IF e = "ZeroDivisionError" THEN scale
                    ELSE Scale(qk_scale, HeadDim(d, num_heads))
        /\ relative_position_bias_table' =
              IF e \in {"ZeroDivisionError", "TypeError"}
              THEN relative_position_bias_table
              ELSE BiasTableShape(ws0, ws1, num_heads)
        /\ relative_position_index' =
              IF e # "none" THEN relative_position_index
              ELSE RelativePositionIndex(ws0, ws1)
        /\ attrs' = attrs \cup
              (IF e = "ZeroDivisionError" THEN {}
               ELSE IF e = "TypeError" THEN {"scale"}
               ELSE IF e = "InvalidArgumentError" THEN {"scale", "table"}
               ELSE {"scale", "table", "index"})
        /\ built' = (e = "none")
        /\ UNCHANGED config_vars
        /\ UNCHANGED call_vars
        /\ UNCHANGED origin_config

(* ------------------------------- call ----------------------------------- *)
(* tf.gather(table, tf.reshape(index, [-1])): every index must name a row. *)
GatherBias ==
    LET n == Len(relative_position_index)
        rows == relative_position_bias_table[1]
    IN  IF \A i \in 1..n : \A j \in 1..n :
              relative_position_index[i][j] \in 0..(rows - 1)
        THEN <<n * n, relative_position_bias_table[2]>>
        ELSE Bad

(* gather, reshape to [W*W, W*W, -1], transpose to [heads, W*W, W*W],      *)
(* then [tf.newaxis,]                                                       *)
RelativePositionBias ==
    LET ww == window_size.base * window_size.base
        g == ReshapeInferLast(GatherBias, <<ww, ww>>)
        t == Transpose(g, <<2, 0, 1>>)
    IN  IF t = Bad THEN Bad ELSE <<1>> \o t

(* The tail shared by both variants: logits, bias, softmax, weighted sum,  *)
(* merge of the heads and the output projection.                           *)
Attend(q, k, v, B_, N, C) ==
    LET logits == MatMul(q, Transpose(k, <<0, 1, 3, 2>>))
        attn == BroadcastAdd(logits, RelativePositionBias)
        x1 == Transpose(MatMul(attn, v), <<0, 2, 1, 3>>)
        x2 == Reshape(x1, <<B_, N, C>>)
    IN  [shape |-> DenseShape(x2, dim),
         stage |-> IF logits = Bad THEN "matmul_qk"
                   ELSE IF attn = Bad THEN "add_bias"
                   ELSE IF x1 = Bad THEN "matmul_v"
                   ELSE IF x2 = Bad THEN "reshape_out"
                   ELSE "none"]

(* WindowAttention.call *)
CallLocal(B_, N, C) ==
    LET qkv0 == DenseShape(<<B_, N, C>>, dim * 3)
        qkv1 == Reshape(qkv0, <<B_, N, 3, num_heads, C \div num_heads>>)
        qkv2 == Transpose(qkv1, <<2, 0, 3, 1, 4>>)
        q == Unstack0(qkv2)
        r == Attend(q, q, q, B_, N, C)
    IN  IF qkv1 = Bad THEN [shape |-> Bad, stage |-> "reshape_qkv"] ELSE r

(* WindowAttentionGlobal.call *)
CallGlobal(B_, N, C, B) ==
    LET kv0 == DenseShape(<<B_, N, C>>, dim * 2)
        kv1 == Reshape(kv0, <<B_, N, 2, num_heads, C \div num_heads>>)
        kv2 == Transpose(kv1, <<2, 0, 3, 1, 4>>)
        k == Unstack0(kv2)
        qg == RepeatShape(<<B, N, C>>, B_ \div B)
        q1 == Reshape(qg, <<B_, N, num_heads, C \div num_heads>>)
        q == Transpose(q1, <<0, 2, 1, 3>>)
        r == Attend(q, k, k, B_, N, C)
    IN  IF kv1 = Bad THEN [shape |-> Bad, stage |-> "reshape_qkv"]
        ELSE IF q1 = Bad THEN [shape |-> Bad, stage |-> "reshape_q"]
        ELSE r

(* The images whose global query ends up in batch row i (1-based) of q:    *)
(* q_global (row b holds the query of image b) is repeated B_ // B times   *)
(* along axis 0 and reshaped to [B_, N, heads, head_dim], so row i of q is *)
(* made of the flat elements (i-1)*N*C .. i*N*C - 1 of the repeated tensor. *)
QueryRows(B_, N, C, B) ==
    LET rep == TfRepeat([b \in 1..B |-> b], B_ \div B)
        per == N * C
    IN  [i \in 1..B_ |->
            {rep[(e \div per) + 1] : e \in ((i - 1) * per)..(i * per - 1)}]

Call(B_, N, B) ==
    LET C == dim
        r == IF cls = "WindowAttention" THEN CallLocal(B_, N, C)
             ELSE CallGlobal(B_, N, C, B)
    IN  /\ built
        /\ op # "call"
        /\ cls = "WindowAttention" => B = 0
        /\ cls = "WindowAttentionGlobal" => B \in Batches
        /\ op' = "call"
        /\ err' = r.stage
        /\ in_shape' = <<B_, N, C>>
        /\ q_batch' = B
        /\ out_shape' = r.shape
        /\ q_rows' = IF cls = "WindowAttentionGlobal" /\ r.stage = "none"
                     THEN QueryRows(B_, N, C, B) ELSE <<>>
        /\ UNCHANGED config_vars
        /\ UNCHANGED build_vars
        /\ UNCHANGED origin_config

(* call returns x (line 69/153): the caller takes the output (or the       *)
(* error); the layer keeps nothing of the call, which is synchronous, so   *)
(* the next call starts only after this one has returned.                  *)
Return ==
    /\ op = "call"
    /\ op' = "idle"
    /\ err' = "none"
    /\ in_shape' = <<>>
    /\ q_batch' = 0
    /\ out_shape' = <<>>
    /\ q_rows' = <<>>
    /\ UNCHANGED config_vars
    /\ UNCHANGED build_vars
    /\ UNCHANGED origin_config

(* --------------------- get_config / reconstruction ---------------------- *)
GetConfig ==
    [set |-> TRUE, window_size |-> window_size, num_heads |-> num_heads,
     qkv_bias |-> qkv_bias, qk_scale |-> qk_scale,
     attn_dropout |-> attn_dropout, proj_dropout |-> proj_dropout]

(* The class called with the fields of layer.get_config() as keyword       *)
(* arguments: __init__ run on the configuration's fields.                  *)
FromConfig ==
    LET config == GetConfig
    IN  /\ window_size.depth < MaxNest
        /\ origin_config' = config
        /\ window_size' = PairOf(config.window_size)
        /\ num_heads' = config.num_heads
        /\ qkv_bias' = config.qkv_bias
        /\ qk_scale' = config.qk_scale
        /\ attn_dropout' = config.attn_dropout
        /\ proj_dropout' = config.proj_dropout
        /\ built' = FALSE
        /\ attrs' = {}
        /\ dim' = 0
        /\ scale' = PyNone
        /\ relative_position_bias_table' = <<>>
        /\ relative_position_index' = <<>>
        /\ op' = "from_config"
        /\ err' = "none"
        /\ in_shape' = <<>>
        /\ q_batch' = 0
        /\ out_shape' = <<>>
        /\ q_rows' = <<>>
        /\ UNCHANGED cls

Next ==
    \/ \E d \in Channels : Build(d)
    \/ \E B_ \in Batches : \E N \in TokenCounts : \E B \in 0..MaxBatch :
          Call(B_, N, B)
    \/ Return
    \/ FromConfig

Spec == Init /\ [][Next]_vars

(* ------------------------------ properties ------------------------------ *)
(* The window edge length W of a layer constructed from an int. *)
W == window_size.base
JustBuilt == op = "build" /\ built /\ window_size.depth = 1
Called == op = "call"
IsGlobal == cls = "WindowAttentionGlobal"
Row(i) == i \div W
Col(i) == i % W

(* C1: after build, in both classes and for every W >= 1, entry (i, j) of  *)
(* the relative position index equals                                       *)
(* (row_i - row_j + W - 1) * (2W - 1) + (col_i - col_j + W - 1), with       *)
(* row = i div W and col = i mod W.                                         *)
C1_IndexFormula ==
    (JustBuilt /\ W >= 1) =>
        /\ Len(relative_position_index) = W * W
        /\ \A i \in 0..(W * W - 1) : \A j \in 0..(W * W - 1) :
              relative_position_index[i + 1][j + 1] =
                  (Row(i) - Row(j) + W - 1) * (2 * W - 1)
                  + (Col(i) - Col(j) + W - 1)

C1_Witness ==
    /\ JustBuilt /\ IsGlobal /\ W = 3
    /\ relative_position_index[1][9] = 0
    /\ relative_position_index[9][1] = 24
    /\ relative_position_index[5][5] = 12

(* C2: for every W >= 1 (W = 1 included) a build whose scale is defined    *)
(* (head_dim >= 1 or a non-zero qk_scale) succeeds, the bias table has     *)
(* exactly (2W-1)^2 rows, the index has shape [W*W, W*W], every entry lies *)
(* in 0..(2W-1)^2-1, and the gather of call reads no row outside the table. *)
C2_TableAndIndexShape ==
    (op = "build" /\ window_size.depth = 1 /\ W >= 1
       /\ (HeadDim(dim, num_heads) >= 1 \/ Truthy(qk_scale))) =>
        /\ built
        /\ err = "none"
        /\ relative_position_bias_table =
              <<(2 * W - 1) * (2 * W - 1), num_heads>>
        /\ Len(relative_position_index) = W * W
        /\ \A i \in 1..(W * W) :
              /\ Len(relative_position_index[i]) = W * W
              /\ \A j \in 1..(W * W) :
                    relative_position_index[i][j]
                        \in 0..((2 * W - 1) * (2 * W - 1) - 1)
        /\ GatherBias = <<W * W * W * W, num_heads>>

C2_Witness ==
    /\ JustBuilt /\ W = 1
    /\ relative_position_bias_table = <<1, num_heads>>
    /\ relative_position_index = << <<0>> >>

(* C3: for every W >= 1 two position pairs have the same index exactly     *)
(* when they have the same signed offset (row_i - row_j, col_i - col_j),   *)
(* and every table row 0..(2W-1)^2-1 is the index of some pair.            *)
Offset(i, j) == <<Row(i) - Row(j), Col(i) - Col(j)>>
C3_OffsetBijection ==
    (JustBuilt /\ W >= 1) =>
        LET P == 0..(W * W - 1)
            idx(i, j) == relative_position_index[i + 1][j + 1]
        IN  /\ \A i \in P : \A j \in P : \A k \in P : \A l \in P :
                  (idx(i, j) = idx(k, l)) <=> (Offset(i, j) = Offset(k, l))
            /\ \A r \in 0..((2 * W - 1) * (2 * W - 1) - 1) :
                  \E i \in P : \E j \in P : idx(i, j) = r

C3_Witness ==
    /\ JustBuilt /\ W = 2
    /\ relative_position_index[1][4] = 0
    /\ relative_position_index[4][1] = 8
    /\ relative_position_index[1][2] = relative_position_index[3][4]

(* C4: a layer constructed from the configuration of another layer returns *)
(* that same configuration from get_config.                                *)
C4_ConfigRoundTrip ==
    origin_config.set => GetConfig = origin_config

(* C5: when num_heads does not divide C, no call returns an output: the    *)
(* call raises (and a build that cannot compute the scale raises too).     *)
C5_IndivisibleChannelsFail ==
    /\ (Called /\ in_shape[3] % num_heads # 0) =>
            (err = "reshape_qkv" /\ out_shape = Bad)
    /\ (op = "build" /\ dim % num_heads # 0 /\ err # "none") => ~built

C5_Witness ==
    /\ Called /\ W = 2 /\ num_heads = 2
    /\ in_shape = <<4, 4, 3>>
    /\ IsGlobal /\ q_batch = 2
    /\ err = "reshape_qkv" /\ out_shape = Bad

(* C6: in WindowAttentionGlobal.call, when B_ is not an exact multiple of  *)
(* B (B_ > B with a remainder, or B > B_) the call raises a shape error    *)
(* and returns no output.                                                  *)
C6_BatchNotMultipleFails ==
    (Called /\ IsGlobal /\ in_shape[1] % q_batch # 0) =>
        (err \in {"reshape_qkv", "reshape_q"} /\ out_shape = Bad)

C6_Witness ==
    /\ Called /\ IsGlobal /\ W = 2 /\ num_heads = 2
    /\ in_shape = <<3, 4, 2>> /\ q_batch = 2
    /\ err = "reshape_q" /\ out_shape = Bad

(* C7: a layer with W <= 0 fails at construction or at build and never     *)
(* becomes built.                                                          *)
C7_NonPositiveWindowFails ==
    (window_size.depth = 1 /\ W <= 0) =>
        (~built /\ (op = "build" => err # "none"))

(* C8: for valid inputs (num_heads divides C, N = W*W, and B_ a multiple   *)
(* of B in the global variant) the call succeeds and its output has the    *)
(* shape [B_, N, C] of the local input.                                    *)
ValidCall ==
    /\ Called
    /\ in_shape[3] % num_heads = 0
    /\ in_shape[2] = W * W
    /\ IsGlobal => in_shape[1] % q_batch = 0
C8_OutputShape ==
    ValidCall => (err = "none" /\ out_shape = in_shape)

C8_Witness ==
    /\ ValidCall /\ IsGlobal /\ W = 3 /\ num_heads = 2
    /\ in_shape = <<4, 9, 2>> /\ q_batch = 2
    /\ out_shape = <<4, 9, 2>>

(* C9: with B_ = B * num_windows, window i (0 <= i < B_) uses the global   *)
(* query of image i div num_windows, and of no other image.                *)
C9_QueryPerImage ==
    (Called /\ IsGlobal /\ err = "none") =>
        LET num_windows == in_shape[1] \div q_batch
        IN  /\ Len(q_rows) = in_shape[1]
            /\ \A i \in 0..(in_shape[1] - 1) :
                  q_rows[i + 1] = {(i \div num_windows) + 1}

C9_Witness ==
    /\ Called /\ IsGlobal /\ err = "none"
    /\ in_shape[1] = 4 /\ q_batch = 2
    /\ q_rows = <<{1}, {1}, {2}, {2}>>

(* C10: the scale equals qk_scale whenever qk_scale is provided (anything  *)
(* but None, 0 included) and head_dim^-0.5 only when it is not provided.   *)
C10_ScaleOverride ==
    ("scale" \in attrs) =>
        /\ qk_scale # PyNone => scale = qk_scale
        /\ qk_scale = PyNone => scale = RSqrt(HeadDim(dim, num_heads))
====
